---- MODULE Spec2Model ----
(***************************************************************************)
(* Syncify: a Flask application that reads a Spotify playlist, searches    *)
(* YouTube Music once per track and ranks the search hits by frequency.    *)
(*                                                                         *)
(* Python strings on which the code computes (lower, split, f-strings,     *)
(* fuzz.ratio) are sequences of Unicode code points, as a Python str is.   *)
(* Strings the code only passes through (album, thumbnail, views,          *)
(* messages) are TLA+ strings.  A value that may be None is None == <<>>   *)
(* or Some(v) == <<v>>: so are the fields of the responses of Spotify and  *)
(* YouTube Music that the code reads (names, titles, ids, lists of artists *)
(* and thumbnails, album).  The lists that the code only tests with        *)
(* "if x" (items, search results) are plain sequences, None being as       *)
(* falsy as [].  The elements of a list are dicts.                         *)
(***************************************************************************)
EXTENDS Integers, Sequences, FiniteSets, TLC

----------------------------------------------------------------------------
(* Python values *)

None == <<>>
Some(v) == <<v>>

\* dict.get(field, default) on a dict modelled as a record
Get(d, field, default) == IF field \in DOMAIN d THEN d[field] ELSE default

\* The result of a call: a returned value or a raised exception (str(e)).
Return(v) == [raised |-> FALSE, value |-> v, exc |-> ""]
Raise(e) == [raised |-> TRUE, value |-> None, exc |-> e]

\* "if x:" on a string, list or dict that may be None
Truthy(x) == x # None /\ DOMAIN x[1] # {}

\* f"{x}" of a string that may be None
Str(x) == IF x = None THEN <<78, 111, 110, 101>> ELSE x[1]   \* 'None'

\* x[0][key] on a list of dicts x that may be None
Subscript(x, key) ==
    IF x = None THEN Raise("'NoneType' object is not subscriptable")
    ELSE IF x[1] = <<>> THEN Raise("list index out of range")
    ELSE IF key \notin DOMAIN x[1][1] THEN Raise("'" \o key \o "'")
    ELSE Return(x[1][1][key])

Min(a, b) == IF a <= b THEN a ELSE b

\* max(S) and min(S) of a non-empty set of integers
Largest(S) == CHOOSE x \in S : \A y \in S : y <= x

Smallest(S) == CHOOSE x \in S : \A y \in S : x <= y

----------------------------------------------------------------------------
(* str methods *)

\* str.lower() follows the Unicode character database of the interpreter
\* (Unicode 14.0.0 in CPython 3.11).  The three tables below are that
\* database, as ranges of code points.
\*
\* <<lo, hi, step, delta>>: the code points lo, lo + step, ..., hi have the
\* one-character lowercase c + delta
LowerRanges ==
    {  <<65, 90, 1, 32>>, <<192, 214, 1, 32>>, <<216, 222, 1, 32>>,
       <<256, 302, 2, 1>>, <<306, 310, 2, 1>>, <<313, 327, 2, 1>>,
       <<330, 374, 2, 1>>, <<376, 376, 1, -121>>, <<377, 381, 2, 1>>,
       <<385, 385, 1, 210>>, <<386, 388, 2, 1>>, <<390, 390, 1, 206>>,
       <<391, 391, 1, 1>>, <<393, 394, 1, 205>>, <<395, 395, 1, 1>>,
       <<398, 398, 1, 79>>, <<399, 399, 1, 202>>, <<400, 400, 1, 203>>,
       <<401, 401, 1, 1>>, <<403, 403, 1, 205>>, <<404, 404, 1, 207>>,
       <<406, 406, 1, 211>>, <<407, 407, 1, 209>>, <<408, 408, 1, 1>>,
       <<412, 412, 1, 211>>, <<413, 413, 1, 213>>, <<415, 415, 1, 214>>,
       <<416, 420, 2, 1>>, <<422, 422, 1, 218>>, <<423, 423, 1, 1>>,
       <<425, 425, 1, 218>>, <<428, 428, 1, 1>>, <<430, 430, 1, 218>>,
       <<431, 431, 1, 1>>, <<433, 434, 1, 217>>, <<435, 437, 2, 1>>,
       <<439, 439, 1, 219>>, <<440, 440, 1, 1>>, <<444, 444, 1, 1>>,
       <<452, 452, 1, 2>>, <<453, 453, 1, 1>>, <<455, 455, 1, 2>>,
       <<456, 456, 1, 1>>, <<458, 458, 1, 2>>, <<459, 475, 2, 1>>,
       <<478, 494, 2, 1>>, <<497, 497, 1, 2>>, <<498, 500, 2, 1>>,
       <<502, 502, 1, -97>>, <<503, 503, 1, -56>>, <<504, 542, 2, 1>>,
       <<544, 544, 1, -130>>, <<546, 562, 2, 1>>, <<570, 570, 1, 10795>>,
       <<571, 571, 1, 1>>, <<573, 573, 1, -163>>, <<574, 574, 1, 10792>>,
       <<577, 577, 1, 1>>, <<579, 579, 1, -195>>, <<580, 580, 1, 69>>,
       <<581, 581, 1, 71>>, <<582, 590, 2, 1>>, <<880, 882, 2, 1>>,
       <<886, 886, 1, 1>>, <<895, 895, 1, 116>>, <<902, 902, 1, 38>>,
       <<904, 906, 1, 37>>, <<908, 908, 1, 64>>, <<910, 911, 1, 63>>,
       <<913, 929, 1, 32>>, <<931, 931, 1, 32>>, <<932, 939, 1, 32>>,
       <<975, 975, 1, 8>>, <<984, 1006, 2, 1>>, <<1012, 1012, 1, -60>>,
       <<1015, 1015, 1, 1>>, <<1017, 1017, 1, -7>>, <<1018, 1018, 1, 1>>,
       <<1021, 1023, 1, -130>>, <<1024, 1039, 1, 80>>, <<1040, 1071, 1, 32>>,
       <<1120, 1152, 2, 1>>, <<1162, 1214, 2, 1>>, <<1216, 1216, 1, 15>>,
       <<1217, 1229, 2, 1>>, <<1232, 1326, 2, 1>>, <<1329, 1366, 1, 48>>,
       <<4256, 4293, 1, 7264>>, <<4295, 4295, 1, 7264>>,
       <<4301, 4301, 1, 7264>>, <<5024, 5103, 1, 38864>>, <<5104, 5109, 1, 8>>,
       <<7312, 7354, 1, -3008>>, <<7357, 7359, 1, -3008>>, <<7680, 7828, 2, 1>>,
       <<7838, 7838, 1, -7615>>, <<7840, 7934, 2, 1>>, <<7944, 7951, 1, -8>>,
       <<7960, 7965, 1, -8>>, <<7976, 7983, 1, -8>>, <<7992, 7999, 1, -8>>,
       <<8008, 8013, 1, -8>>, <<8025, 8031, 2, -8>>, <<8040, 8047, 1, -8>>,
       <<8072, 8079, 1, -8>>, <<8088, 8095, 1, -8>>, <<8104, 8111, 1, -8>>,
       <<8120, 8121, 1, -8>>, <<8122, 8123, 1, -74>>, <<8124, 8124, 1, -9>>,
       <<8136, 8139, 1, -86>>, <<8140, 8140, 1, -9>>, <<8152, 8153, 1, -8>>,
       <<8154, 8155, 1, -100>>, <<8168, 8169, 1, -8>>, <<8170, 8171, 1, -112>>,
       <<8172, 8172, 1, -7>>, <<8184, 8185, 1, -128>>, <<8186, 8187, 1, -126>>,
       <<8188, 8188, 1, -9>>, <<8486, 8486, 1, -7517>>,
       <<8490, 8490, 1, -8383>>, <<8491, 8491, 1, -8262>>,
       <<8498, 8498, 1, 28>>, <<8544, 8559, 1, 16>>, <<8579, 8579, 1, 1>>,
       <<9398, 9423, 1, 26>>, <<11264, 11311, 1, 48>>, <<11360, 11360, 1, 1>>,
       <<11362, 11362, 1, -10743>>, <<11363, 11363, 1, -3814>>,
       <<11364, 11364, 1, -10727>>, <<11367, 11371, 2, 1>>,
       <<11373, 11373, 1, -10780>>, <<11374, 11374, 1, -10749>>,
       <<11375, 11375, 1, -10783>>, <<11376, 11376, 1, -10782>>,
       <<11378, 11378, 1, 1>>, <<11381, 11381, 1, 1>>,
       <<11390, 11391, 1, -10815>>, <<11392, 11490, 2, 1>>,
       <<11499, 11501, 2, 1>>, <<11506, 11506, 1, 1>>, <<42560, 42604, 2, 1>>,
       <<42624, 42650, 2, 1>>, <<42786, 42798, 2, 1>>, <<42802, 42862, 2, 1>>,
       <<42873, 42875, 2, 1>>, <<42877, 42877, 1, -35332>>,
       <<42878, 42886, 2, 1>>, <<42891, 42891, 1, 1>>,
       <<42893, 42893, 1, -42280>>, <<42896, 42898, 2, 1>>,
       <<42902, 42920, 2, 1>>, <<42922, 42922, 1, -42308>>,
       <<42923, 42923, 1, -42319>>, <<42924, 42924, 1, -42315>>,
       <<42925, 42925, 1, -42305>>, <<42926, 42926, 1, -42308>>,
       <<42928, 42928, 1, -42258>>, <<42929, 42929, 1, -42282>>,
       <<42930, 42930, 1, -42261>>, <<42931, 42931, 1, 928>>,
       <<42932, 42946, 2, 1>>, <<42948, 42948, 1, -48>>,
       <<42949, 42949, 1, -42307>>, <<42950, 42950, 1, -35384>>,
       <<42951, 42953, 2, 1>>, <<42960, 42960, 1, 1>>, <<42966, 42968, 2, 1>>,
       <<42997, 42997, 1, 1>>, <<65313, 65338, 1, 32>>, <<66560, 66599, 1, 40>>,
       <<66736, 66771, 1, 40>>, <<66928, 66964, 2, 39>>,
       <<66929, 66938, 1, 39>>, <<66941, 66954, 1, 39>>,
       <<66957, 66962, 1, 39>>, <<66965, 66965, 1, 39>>,
       <<68736, 68786, 1, 64>>, <<71840, 71871, 1, 32>>,
       <<93760, 93791, 1, 32>>, <<125184, 125217, 1, 34>> }

\* <<lo, hi>>: the code points that are cased and not case-ignorable
CasedRanges ==
    {  <<65, 90>>, <<97, 122>>, <<170, 170>>, <<181, 181>>, <<186, 186>>,
       <<192, 214>>, <<216, 246>>, <<248, 442>>, <<444, 447>>, <<452, 659>>,
       <<661, 687>>, <<880, 883>>, <<886, 887>>, <<891, 893>>, <<895, 895>>,
       <<902, 902>>, <<904, 906>>, <<908, 908>>, <<910, 929>>, <<931, 1013>>,
       <<1015, 1153>>, <<1162, 1327>>, <<1329, 1366>>, <<1376, 1416>>,
       <<4256, 4293>>, <<4295, 4295>>, <<4301, 4301>>, <<4304, 4346>>,
       <<4349, 4351>>, <<5024, 5109>>, <<5112, 5117>>, <<7296, 7304>>,
       <<7312, 7354>>, <<7357, 7359>>, <<7424, 7467>>, <<7531, 7543>>,
       <<7545, 7578>>, <<7680, 7957>>, <<7960, 7965>>, <<7968, 8005>>,
       <<8008, 8013>>, <<8016, 8023>>, <<8025, 8025>>, <<8027, 8027>>,
       <<8029, 8029>>, <<8031, 8061>>, <<8064, 8116>>, <<8118, 8124>>,
       <<8126, 8126>>, <<8130, 8132>>, <<8134, 8140>>, <<8144, 8147>>,
       <<8150, 8155>>, <<8160, 8172>>, <<8178, 8180>>, <<8182, 8188>>,
       <<8450, 8450>>, <<8455, 8455>>, <<8458, 8467>>, <<8469, 8469>>,
       <<8473, 8477>>, <<8484, 8484>>, <<8486, 8486>>, <<8488, 8488>>,
       <<8490, 8493>>, <<8495, 8500>>, <<8505, 8505>>, <<8508, 8511>>,
       <<8517, 8521>>, <<8526, 8526>>, <<8544, 8575>>, <<8579, 8580>>,
       <<9398, 9449>>, <<11264, 11387>>, <<11390, 11492>>, <<11499, 11502>>,
       <<11506, 11507>>, <<11520, 11557>>, <<11559, 11559>>, <<11565, 11565>>,
       <<42560, 42605>>, <<42624, 42651>>, <<42786, 42863>>, <<42865, 42887>>,
       <<42891, 42894>>, <<42896, 42954>>, <<42960, 42961>>, <<42963, 42963>>,
       <<42965, 42969>>, <<42997, 42998>>, <<43002, 43002>>, <<43824, 43866>>,
       <<43872, 43880>>, <<43888, 43967>>, <<64256, 64262>>, <<64275, 64279>>,
       <<65313, 65338>>, <<65345, 65370>>, <<66560, 66639>>, <<66736, 66771>>,
       <<66776, 66811>>, <<66928, 66938>>, <<66940, 66954>>, <<66956, 66962>>,
       <<66964, 66965>>, <<66967, 66977>>, <<66979, 66993>>, <<66995, 67001>>,
       <<67003, 67004>>, <<68736, 68786>>, <<68800, 68850>>, <<71840, 71903>>,
       <<93760, 93823>>, <<119808, 119892>>, <<119894, 119964>>,
       <<119966, 119967>>, <<119970, 119970>>, <<119973, 119974>>,
       <<119977, 119980>>, <<119982, 119993>>, <<119995, 119995>>,
       <<119997, 120003>>, <<120005, 120069>>, <<120071, 120074>>,
       <<120077, 120084>>, <<120086, 120092>>, <<120094, 120121>>,
       <<120123, 120126>>, <<120128, 120132>>, <<120134, 120134>>,
       <<120138, 120144>>, <<120146, 120485>>, <<120488, 120512>>,
       <<120514, 120538>>, <<120540, 120570>>, <<120572, 120596>>,
       <<120598, 120628>>, <<120630, 120654>>, <<120656, 120686>>,
       <<120688, 120712>>, <<120714, 120744>>, <<120746, 120770>>,
       <<120772, 120779>>, <<122624, 122633>>, <<122635, 122654>>,
       <<125184, 125251>>, <<127280, 127305>>, <<127312, 127337>>,
       <<127344, 127369>> }

\* <<lo, hi>>: the case-ignorable code points
CaseIgnorableRanges ==
    {  <<39, 39>>, <<46, 46>>, <<58, 58>>, <<94, 94>>, <<96, 96>>, <<168, 168>>,
       <<173, 173>>, <<175, 175>>, <<180, 180>>, <<183, 184>>, <<688, 879>>,
       <<884, 885>>, <<890, 890>>, <<900, 901>>, <<903, 903>>, <<1155, 1161>>,
       <<1369, 1369>>, <<1375, 1375>>, <<1425, 1469>>, <<1471, 1471>>,
       <<1473, 1474>>, <<1476, 1477>>, <<1479, 1479>>, <<1524, 1524>>,
       <<1536, 1541>>, <<1552, 1562>>, <<1564, 1564>>, <<1600, 1600>>,
       <<1611, 1631>>, <<1648, 1648>>, <<1750, 1757>>, <<1759, 1768>>,
       <<1770, 1773>>, <<1807, 1807>>, <<1809, 1809>>, <<1840, 1866>>,
       <<1958, 1968>>, <<2027, 2037>>, <<2042, 2042>>, <<2045, 2045>>,
       <<2070, 2093>>, <<2137, 2139>>, <<2184, 2184>>, <<2192, 2193>>,
       <<2200, 2207>>, <<2249, 2306>>, <<2362, 2362>>, <<2364, 2364>>,
       <<2369, 2376>>, <<2381, 2381>>, <<2385, 2391>>, <<2402, 2403>>,
       <<2417, 2417>>, <<2433, 2433>>, <<2492, 2492>>, <<2497, 2500>>,
       <<2509, 2509>>, <<2530, 2531>>, <<2558, 2558>>, <<2561, 2562>>,
       <<2620, 2620>>, <<2625, 2626>>, <<2631, 2632>>, <<2635, 2637>>,
       <<2641, 2641>>, <<2672, 2673>>, <<2677, 2677>>, <<2689, 2690>>,
       <<2748, 2748>>, <<2753, 2757>>, <<2759, 2760>>, <<2765, 2765>>,
       <<2786, 2787>>, <<2810, 2815>>, <<2817, 2817>>, <<2876, 2876>>,
       <<2879, 2879>>, <<2881, 2884>>, <<2893, 2893>>, <<2901, 2902>>,
       <<2914, 2915>>, <<2946, 2946>>, <<3008, 3008>>, <<3021, 3021>>,
       <<3072, 3072>>, <<3076, 3076>>, <<3132, 3132>>, <<3134, 3136>>,
       <<3142, 3144>>, <<3146, 3149>>, <<3157, 3158>>, <<3170, 3171>>,
       <<3201, 3201>>, <<3260, 3260>>, <<3263, 3263>>, <<3270, 3270>>,
       <<3276, 3277>>, <<3298, 3299>>, <<3328, 3329>>, <<3387, 3388>>,
       <<3393, 3396>>, <<3405, 3405>>, <<3426, 3427>>, <<3457, 3457>>,
       <<3530, 3530>>, <<3538, 3540>>, <<3542, 3542>>, <<3633, 3633>>,
       <<3636, 3642>>, <<3654, 3662>>, <<3761, 3761>>, <<3764, 3772>>,
       <<3782, 3782>>, <<3784, 3789>>, <<3864, 3865>>, <<3893, 3893>>,
       <<3895, 3895>>, <<3897, 3897>>, <<3953, 3966>>, <<3968, 3972>>,
       <<3974, 3975>>, <<3981, 3991>>, <<3993, 4028>>, <<4038, 4038>>,
       <<4141, 4144>>, <<4146, 4151>>, <<4153, 4154>>, <<4157, 4158>>,
       <<4184, 4185>>, <<4190, 4192>>, <<4209, 4212>>, <<4226, 4226>>,
       <<4229, 4230>>, <<4237, 4237>>, <<4253, 4253>>, <<4348, 4348>>,
       <<4957, 4959>>, <<5906, 5908>>, <<5938, 5939>>, <<5970, 5971>>,
       <<6002, 6003>>, <<6068, 6069>>, <<6071, 6077>>, <<6086, 6086>>,
       <<6089, 6099>>, <<6103, 6103>>, <<6109, 6109>>, <<6155, 6159>>,
       <<6211, 6211>>, <<6277, 6278>>, <<6313, 6313>>, <<6432, 6434>>,
       <<6439, 6440>>, <<6450, 6450>>, <<6457, 6459>>, <<6679, 6680>>,
       <<6683, 6683>>, <<6742, 6742>>, <<6744, 6750>>, <<6752, 6752>>,
       <<6754, 6754>>, <<6757, 6764>>, <<6771, 6780>>, <<6783, 6783>>,
       <<6823, 6823>>, <<6832, 6862>>, <<6912, 6915>>, <<6964, 6964>>,
       <<6966, 6970>>, <<6972, 6972>>, <<6978, 6978>>, <<7019, 7027>>,
       <<7040, 7041>>, <<7074, 7077>>, <<7080, 7081>>, <<7083, 7085>>,
       <<7142, 7142>>, <<7144, 7145>>, <<7149, 7149>>, <<7151, 7153>>,
       <<7212, 7219>>, <<7222, 7223>>, <<7288, 7293>>, <<7376, 7378>>,
       <<7380, 7392>>, <<7394, 7400>>, <<7405, 7405>>, <<7412, 7412>>,
       <<7416, 7417>>, <<7468, 7530>>, <<7544, 7544>>, <<7579, 7679>>,
       <<8125, 8125>>, <<8127, 8129>>, <<8141, 8143>>, <<8157, 8159>>,
       <<8173, 8175>>, <<8189, 8190>>, <<8203, 8207>>, <<8216, 8217>>,
       <<8228, 8228>>, <<8231, 8231>>, <<8234, 8238>>, <<8288, 8292>>,
       <<8294, 8303>>, <<8305, 8305>>, <<8319, 8319>>, <<8336, 8348>>,
       <<8400, 8432>>, <<11388, 11389>>, <<11503, 11505>>, <<11631, 11631>>,
       <<11647, 11647>>, <<11744, 11775>>, <<11823, 11823>>, <<12293, 12293>>,
       <<12330, 12333>>, <<12337, 12341>>, <<12347, 12347>>, <<12441, 12446>>,
       <<12540, 12542>>, <<40981, 40981>>, <<42232, 42237>>, <<42508, 42508>>,
       <<42607, 42610>>, <<42612, 42621>>, <<42623, 42623>>, <<42652, 42655>>,
       <<42736, 42737>>, <<42752, 42785>>, <<42864, 42864>>, <<42888, 42890>>,
       <<42994, 42996>>, <<43000, 43001>>, <<43010, 43010>>, <<43014, 43014>>,
       <<43019, 43019>>, <<43045, 43046>>, <<43052, 43052>>, <<43204, 43205>>,
       <<43232, 43249>>, <<43263, 43263>>, <<43302, 43309>>, <<43335, 43345>>,
       <<43392, 43394>>, <<43443, 43443>>, <<43446, 43449>>, <<43452, 43453>>,
       <<43471, 43471>>, <<43493, 43494>>, <<43561, 43566>>, <<43569, 43570>>,
       <<43573, 43574>>, <<43587, 43587>>, <<43596, 43596>>, <<43632, 43632>>,
       <<43644, 43644>>, <<43696, 43696>>, <<43698, 43700>>, <<43703, 43704>>,
       <<43710, 43711>>, <<43713, 43713>>, <<43741, 43741>>, <<43756, 43757>>,
       <<43763, 43764>>, <<43766, 43766>>, <<43867, 43871>>, <<43881, 43883>>,
       <<44005, 44005>>, <<44008, 44008>>, <<44013, 44013>>, <<64286, 64286>>,
       <<64434, 64450>>, <<65024, 65039>>, <<65043, 65043>>, <<65056, 65071>>,
       <<65106, 65106>>, <<65109, 65109>>, <<65279, 65279>>, <<65287, 65287>>,
       <<65294, 65294>>, <<65306, 65306>>, <<65342, 65342>>, <<65344, 65344>>,
       <<65392, 65392>>, <<65438, 65439>>, <<65507, 65507>>, <<65529, 65531>>,
       <<66045, 66045>>, <<66272, 66272>>, <<66422, 66426>>, <<67456, 67461>>,
       <<67463, 67504>>, <<67506, 67514>>, <<68097, 68099>>, <<68101, 68102>>,
       <<68108, 68111>>, <<68152, 68154>>, <<68159, 68159>>, <<68325, 68326>>,
       <<68900, 68903>>, <<69291, 69292>>, <<69446, 69456>>, <<69506, 69509>>,
       <<69633, 69633>>, <<69688, 69702>>, <<69744, 69744>>, <<69747, 69748>>,
       <<69759, 69761>>, <<69811, 69814>>, <<69817, 69818>>, <<69821, 69821>>,
       <<69826, 69826>>, <<69837, 69837>>, <<69888, 69890>>, <<69927, 69931>>,
       <<69933, 69940>>, <<70003, 70003>>, <<70016, 70017>>, <<70070, 70078>>,
       <<70089, 70092>>, <<70095, 70095>>, <<70191, 70193>>, <<70196, 70196>>,
       <<70198, 70199>>, <<70206, 70206>>, <<70367, 70367>>, <<70371, 70378>>,
       <<70400, 70401>>, <<70459, 70460>>, <<70464, 70464>>, <<70502, 70508>>,
       <<70512, 70516>>, <<70712, 70719>>, <<70722, 70724>>, <<70726, 70726>>,
       <<70750, 70750>>, <<70835, 70840>>, <<70842, 70842>>, <<70847, 70848>>,
       <<70850, 70851>>, <<71090, 71093>>, <<71100, 71101>>, <<71103, 71104>>,
       <<71132, 71133>>, <<71219, 71226>>, <<71229, 71229>>, <<71231, 71232>>,
       <<71339, 71339>>, <<71341, 71341>>, <<71344, 71349>>, <<71351, 71351>>,
       <<71453, 71455>>, <<71458, 71461>>, <<71463, 71467>>, <<71727, 71735>>,
       <<71737, 71738>>, <<71995, 71996>>, <<71998, 71998>>, <<72003, 72003>>,
       <<72148, 72151>>, <<72154, 72155>>, <<72160, 72160>>, <<72193, 72202>>,
       <<72243, 72248>>, <<72251, 72254>>, <<72263, 72263>>, <<72273, 72278>>,
       <<72281, 72283>>, <<72330, 72342>>, <<72344, 72345>>, <<72752, 72758>>,
       <<72760, 72765>>, <<72767, 72767>>, <<72850, 72871>>, <<72874, 72880>>,
       <<72882, 72883>>, <<72885, 72886>>, <<73009, 73014>>, <<73018, 73018>>,
       <<73020, 73021>>, <<73023, 73029>>, <<73031, 73031>>, <<73104, 73105>>,
       <<73109, 73109>>, <<73111, 73111>>, <<73459, 73460>>, <<78896, 78904>>,
       <<92912, 92916>>, <<92976, 92982>>, <<92992, 92995>>, <<94031, 94031>>,
       <<94095, 94111>>, <<94176, 94177>>, <<94179, 94180>>, <<110576, 110579>>,
       <<110581, 110587>>, <<110589, 110590>>, <<113821, 113822>>,
       <<113824, 113827>>, <<118528, 118573>>, <<118576, 118598>>,
       <<119143, 119145>>, <<119155, 119170>>, <<119173, 119179>>,
       <<119210, 119213>>, <<119362, 119364>>, <<121344, 121398>>,
       <<121403, 121452>>, <<121461, 121461>>, <<121476, 121476>>,
       <<121499, 121503>>, <<121505, 121519>>, <<122880, 122886>>,
       <<122888, 122904>>, <<122907, 122913>>, <<122915, 122916>>,
       <<122918, 122922>>, <<123184, 123197>>, <<123566, 123566>>,
       <<123628, 123631>>, <<125136, 125142>>, <<125252, 125259>>,
       <<127995, 127999>>, <<917505, 917505>>, <<917536, 917631>>,
       <<917760, 917999>> }

InRanges(c, ranges) == \E r \in ranges : r[1] <= c /\ c <= r[2]

Cased(c) == InRanges(c, CasedRanges)

CaseIgnorable(c) == InRanges(c, CaseIgnorableRanges)

\* c + delta for the range of the table that holds c
Shifted(c, hits) == IF hits = {} THEN c ELSE c + (CHOOSE r \in hits : TRUE)[4]

\* the lowercase of one code point outside any context: a string, since
\* U+0130 has the two-character lowercase 'i' + U+0307
LowerChar(c) ==
    IF c < 128 THEN (IF 65 <= c /\ c <= 90 THEN <<c + 32>> ELSE <<c>>)
    ELSE IF c = 304 THEN <<105, 775>>
    ELSE <<Shifted(c, {r \in LowerRanges : /\ r[1] <= c /\ c <= r[2]
                                           /\ (c - r[1]) % r[3] = 0})>>

\* with before and after the positions on either side of a capital sigma that
\* are not case-ignorable: the sigma follows a cased character and is not
\* followed by one
EndsWord(s, before, after) ==
    /\ before # {}
    /\ Cased(s[Largest(before)])
    /\ after = {} \/ ~Cased(s[Smallest(after)])

\* is the capital sigma s[i] at the end of a word?
FinalSigma(s, i) ==
    EndsWord(s, {j \in 1..(i - 1) : ~CaseIgnorable(s[j])},
                {j \in (i + 1)..Len(s) : ~CaseIgnorable(s[j])})

\* the lowercase of s[i] in s
LowerAt(s, i) ==
    IF s[i] = 931 THEN (IF FinalSigma(s, i) THEN <<962>> ELSE <<963>>)
    ELSE LowerChar(s[i])

RECURSIVE LowerFrom(_, _)
LowerFrom(s, i) ==
    IF i > Len(s) THEN <<>> ELSE LowerAt(s, i) \o LowerFrom(s, i + 1)

\* str.lower()
Lower(s) == LowerFrom(s, 1)

\* str.find(sep): index of the leftmost occurrence of sep in s, 0 if none
Find(s, sep) ==
    LET hits == {i \in 1..(Len(s) - Len(sep) + 1) :
                    SubSeq(s, i, i + Len(sep) - 1) = sep}
    IN IF hits = {} THEN 0 ELSE CHOOSE i \in hits : \A j \in hits : i <= j

\* str.split(sep): the pieces between leftmost non-overlapping occurrences
RECURSIVE Split(_, _)
Split(s, sep) ==
    LET i == Find(s, sep)
    IN IF i = 0 THEN <<s>>
       ELSE <<SubSeq(s, 1, i - 1)>> \o Split(SubSeq(s, i + Len(sep), Len(s)), sep)

----------------------------------------------------------------------------
(* filter_and_get_top_recommendations *)

\* the separator of the f-string "{title} by {artist}"
By == <<32, 98, 121, 32>>   \* ' by '

\* f"{rec['title'].lower()} by {rec['artist'].lower()}", neither being None
RecKey(title, artist) == Lower(title[1]) \o By \o Lower(artist[1])

\* playlist_songs: the set of keys of the playlist's tracks
PlaylistSongs(spotify_tracks) ==
    {RecKey(spotify_tracks[i].name, spotify_tracks[i].artist) :
        i \in DOMAIN spotify_tracks}

\* (variant for C4: the candidate's key is compared without lowercasing it)
ExcludedCaseSensitive(rec, playlist_songs) ==
    (rec.title[1] \o By \o rec.artist[1]) \in playlist_songs

\* is the candidate left out of the count?
Excluded(rec, playlist_songs) == RecKey(rec.title, rec.artist) \in playlist_songs

\* (variant for C5: every candidate opens a new counter)
IncrementAppend(counts, rec_key) == Append(counts, <<rec_key, 1>>)

\* recommendation_count[rec_key] += 1 on a defaultdict(int); the dict is the
\* sequence of its items <<key, count>> in insertion order
Increment(counts, rec_key) ==
    IF \E j \in DOMAIN counts : counts[j][1] = rec_key
    THEN [j \in DOMAIN counts |->
            IF counts[j][1] = rec_key THEN <<rec_key, counts[j][2] + 1>>
            ELSE counts[j]]
    ELSE Append(counts, <<rec_key, 1>>)

\* the counting loop over all_recommendations
RECURSIVE RecommendationCount(_, _)
RecommendationCount(playlist_songs, all_recommendations) ==
    IF all_recommendations = <<>> THEN <<>>
    ELSE LET n == Len(all_recommendations)
             before == RecommendationCount(playlist_songs,
                                           SubSeq(all_recommendations, 1, n - 1))
             rec == all_recommendations[n]
         IN IF Excluded(rec, playlist_songs) THEN before
            ELSE Increment(before, RecKey(rec.title, rec.artist))

\* (variant for C2: the items are left in insertion order)
Unsorted(items) == items

\* sorted(items, key=lambda x: x[1], reverse=True): stable, descending
RECURSIVE SortedByCount(_)
SortedByCount(items) ==
    IF items = <<>> THEN <<>>
    ELSE LET n == Len(items)
             before == SortedByCount(SubSeq(items, 1, n - 1))
             x == items[n]
             k == Cardinality({j \in DOMAIN before : before[j][2] >= x[2]})
         IN SubSeq(before, 1, k) \o <<x>> \o SubSeq(before, k + 1, Len(before))

\* the slice [:10] of the sorted items
TopLimit == 10

\* (variant for C1: the sorted items are not sliced)
TopRecommendationsUncut(counts) == SortedByCount(counts)

TopRecommendations(counts) ==
    LET sorted == SortedByCount(counts)
    IN SubSeq(sorted, 1, Min(TopLimit, Len(sorted)))

\* next((rec for rec in all_recommendations if ...), None)
RecInfo(all_recommendations, song_title, song_artist) ==
    LET hits == {j \in DOMAIN all_recommendations :
                    /\ Lower(all_recommendations[j].title[1]) = song_title
                    /\ Lower(all_recommendations[j].artist[1]) = song_artist}
    IN IF hits = {} THEN None
       ELSE Some(all_recommendations[CHOOSE j \in hits : \A h \in hits : j <= h])

\* song_title, song_artist = rec_key.split(" by ")
Unpack(rec_key) ==
    LET parts == Split(rec_key, By)
    IN IF Len(parts) > 2 THEN Raise("too many values to unpack (expected 2)")
       ELSE IF Len(parts) < 2
            THEN Raise("not enough values to unpack (expected 2, got 1)")
       ELSE Return(parts)

\* the loop that builds final_recommendations from top_recommendations
RECURSIVE FinalRecommendations(_, _)
FinalRecommendations(top_recommendations, all_recommendations) ==
    IF top_recommendations = <<>> THEN Return(<<>>)
    ELSE LET n == Len(top_recommendations)
             before == FinalRecommendations(SubSeq(top_recommendations, 1, n - 1),
                                            all_recommendations)
             parts == Unpack(top_recommendations[n][1])
         IN IF before.raised THEN before
            ELSE IF parts.raised THEN parts
            ELSE LET rec_info == RecInfo(all_recommendations,
                                         parts.value[1], parts.value[2])
                 IN IF rec_info = None THEN before
                    ELSE Return(Append(before.value, rec_info[1]))

\* does .lower() meet a None among the names of the tracks or the candidates?
\* Every key is built before the first key is split.
LowerOfNone(spotify_tracks, all_recommendations) ==
    \/ \E i \in DOMAIN spotify_tracks :
          spotify_tracks[i].name = None \/ spotify_tracks[i].artist = None
    \/ \E j \in DOMAIN all_recommendations :
          all_recommendations[j].title = None \/ all_recommendations[j].artist = None

filter_and_get_top_recommendations(spotify_tracks, all_recommendations) ==
    IF LowerOfNone(spotify_tracks, all_recommendations)
    THEN Raise("'NoneType' object has no attribute 'lower'")
    ELSE FinalRecommendations(
             TopRecommendations(
                 RecommendationCount(PlaylistSongs(spotify_tracks),
                                     all_recommendations)),
             all_recommendations)

----------------------------------------------------------------------------
(* fuzz.ratio, on difflib's SequenceMatcher (fuzzywuzzy without            *)
(* python-Levenshtein), called as SequenceMatcher(None, s1, s2)            *)

\* SequenceMatcher.__chain_b with autojunk: when b has 200 elements or more,
\* the elements that occur more than len(b) // 100 + 1 times are dropped from
\* the index b2j
Popular(b) ==
    IF Len(b) < 200 THEN {}
    ELSE {x \in {b[j] : j \in 1..Len(b)} :
             Cardinality({h \in 1..Len(b) : b[h] = x}) > Len(b) \div 100 + 1}

\* j2len: the length of the run of indexed matches that ends at a[i], b[j]
RECURSIVE RunLength(_, _, _, _, _, _, _)
RunLength(a, b, popular, alo, blo, i, j) ==
    IF i < alo \/ j < blo THEN 0
    ELSE IF a[i] # b[j] \/ b[j] \in popular THEN 0
    ELSE 1 + RunLength(a, b, popular, alo, blo, i - 1, j - 1)

\* the runs <<i, j, k>> of k indexed matches that end at a[i], b[j], with
\* alo <= i <= ahi and blo <= j <= bhi
Runs(a, b, popular, alo, ahi, blo, bhi) ==
    {<<p[1], p[2], RunLength(a, b, popular, alo, blo, p[1], p[2])>> :
        p \in {q \in (alo..ahi) \X (blo..bhi) :
                  a[q[1]] = b[q[2]] /\ b[q[2]] \notin popular}}

\* the runs whose n-th component is v
Where(runs, n, v) == {r \in runs : r[n] = v}

\* the run that the scan over i, then over j, meets first
FirstRun(runs) ==
    CHOOSE r \in Where(runs, 1, Smallest({q[1] : q \in runs})) :
        \A q \in runs : q[1] = r[1] => r[2] <= q[2]

\* the block <<i, j, k>> of a run that ends at r[1], r[2]
BlockOf(r) == <<r[1] - r[3] + 1, r[2] - r[3] + 1, r[3]>>

\* besti, bestj, bestsize after the scan: the first of the longest runs
BestRun(runs, alo, blo) ==
    IF runs = {} THEN <<alo, blo, 0>>
    ELSE BlockOf(FirstRun(Where(runs, 3, Largest({q[3] : q \in runs}))))

\* the two loops that extend the best block with equal elements (isjunk is None)
RECURSIVE ExtendBack(_, _, _, _, _, _)
ExtendBack(a, b, alo, blo, i, j) ==
    IF i > alo /\ j > blo /\ a[i - 1] = b[j - 1]
    THEN 1 + ExtendBack(a, b, alo, blo, i - 1, j - 1)
    ELSE 0

RECURSIVE ExtendForward(_, _, _, _, _, _)
ExtendForward(a, b, ahi, bhi, i, j) ==
    IF i <= ahi /\ j <= bhi /\ a[i] = b[j]
    THEN 1 + ExtendForward(a, b, ahi, bhi, i + 1, j + 1)
    ELSE 0

Extended(m, back, forward) == <<m[1] - back, m[2] - back, m[3] + back + forward>>

Extend(a, b, alo, ahi, blo, bhi, m) ==
    Extended(m, ExtendBack(a, b, alo, blo, m[1], m[2]),
                ExtendForward(a, b, ahi, bhi, m[1] + m[3], m[2] + m[3]))

\* SequenceMatcher.find_longest_match(alo, ahi, blo, bhi) on a[alo..ahi] and
\* b[blo..bhi]: <<i, j, k>> with a[i..i+k-1] = b[j..j+k-1]
find_longest_match(a, b, popular, alo, ahi, blo, bhi) ==
    Extend(a, b, alo, ahi, blo, bhi,
           BestRun(Runs(a, b, popular, alo, ahi, blo, bhi), alo, blo))

\* SequenceMatcher(None, a, b).find_longest_match()
LongestMatch(a, b) == find_longest_match(a, b, Popular(b), 1, Len(a), 1, Len(b))

\* the total size of the blocks that get_matching_blocks finds around the
\* block m of a[alo..ahi] and b[blo..bhi]
RECURSIVE MatchingBlocks(_, _, _, _, _, _, _)
Around(a, b, popular, alo, ahi, blo, bhi, m) ==
    IF m[3] = 0 THEN 0
    ELSE m[3]
         + (IF alo < m[1] /\ blo < m[2]
            THEN MatchingBlocks(a, b, popular, alo, m[1] - 1, blo, m[2] - 1)
            ELSE 0)
         + (IF m[1] + m[3] <= ahi /\ m[2] + m[3] <= bhi
            THEN MatchingBlocks(a, b, popular, m[1] + m[3], ahi, m[2] + m[3], bhi)
            ELSE 0)

MatchingBlocks(a, b, popular, alo, ahi, blo, bhi) ==
    Around(a, b, popular, alo, ahi, blo, bhi,
           find_longest_match(a, b, popular, alo, ahi, blo, bhi))

\* the total size of SequenceMatcher(None, a, b).get_matching_blocks()
Matches(a, b) == MatchingBlocks(a, b, Popular(b), 1, Len(a), 1, Len(b))

\* int(round(100 * (2.0 * M / T))) with num = 200 * M and den = T, T < 10^11:
\* the float is on the same side of the half as the fraction, and at a half
\* Python rounds to even; but 100 * 0.545 is the float 54.50000000000001 and
\* 100 * 0.575 is the float 57.49999999999999
Round(num, den) ==
    IF 2 * (num % den) > den THEN num \div den + 1
    ELSE IF 2 * (num % den) < den THEN num \div den
    ELSE IF num \div den = 54 THEN 55
    ELSE IF num \div den = 57 THEN 57
    ELSE IF (num \div den) % 2 = 0 THEN num \div den
    ELSE num \div den + 1

\* fuzz.ratio(s1, s2)
FuzzRatio(s1, s2) ==
    IF s1 = s2 THEN 100
    ELSE IF Len(s1) = 0 \/ Len(s2) = 0 THEN 0
    ELSE Round(200 * Matches(s1, s2), Len(s1) + Len(s2))

----------------------------------------------------------------------------
(* get_spotify_tracks *)

\* 'Unknown Song'
UnknownSong == <<85, 110, 107, 110, 111, 119, 110, 32, 83, 111, 110, 103>>
\* 'Unknown Artist'
UnknownArtist ==
    <<85, 110, 107, 110, 111, 119, 110, 32, 65, 114, 116, 105, 115, 116>>

\* the body of the loop for one item of the playlist response
SongOfItem(item) ==
    LET track == Get(item, "track", None)
    IN IF track = None THEN Return(None)
       ELSE LET t == track[1]
                artists == Get(t, "artists", None)
                song_name == Get(t, "name", Some(UnknownSong))
                artist_name == IF Truthy(artists)
                               THEN Get(artists[1][1], "name", Some(UnknownArtist))
                               ELSE Some(UnknownArtist)
            IN IF "id" \notin DOMAIN t THEN Raise("'id'")
               ELSE Return(Some([name |-> song_name, artist |-> artist_name,
                                 id |-> t.id]))

RECURSIVE SongList(_)
SongList(tracks) ==
    IF tracks = <<>> THEN Return(<<>>)
    ELSE LET n == Len(tracks)
             before == SongList(SubSeq(tracks, 1, n - 1))
             song == SongOfItem(tracks[n])
         IN IF before.raised THEN before
            ELSE IF song.raised THEN song
            ELSE Return(before.value \o song.value)

\* results is what sp.playlist_tracks(playlist_id) returned
get_spotify_tracks(results) ==
    IF results = None THEN Raise("'NoneType' object has no attribute 'get'")
    ELSE SongList(Get(results[1], "items", <<>>))

----------------------------------------------------------------------------
(* get_youtube_music_recommendations *)

SearchLimit == 10
FuzzThreshold == 90

\* 'https://open.spotify.com/track/'
TrackUrl ==
    <<104, 116, 116, 112, 115, 58, 47, 47, 111, 112, 101, 110, 46, 115, 112, 111,
      116, 105, 102, 121, 46, 99, 111, 109, 47, 116, 114, 97, 99, 107, 47>>

\* f'{song_name} {artist_name}'
SearchQuery(song_name, artist_name) ==
    Str(song_name) \o <<32>> \o Str(artist_name)   \* ' '

\* "Skip exact matches using fuzzy matching": the test of the if, which
\* calls .lower() on the artists only when the titles match
SkipMatch(title, artist, song_name, artist_name) ==
    IF title = None \/ song_name = None
    THEN Raise("'NoneType' object has no attribute 'lower'")
    ELSE IF FuzzRatio(Lower(title[1]), Lower(song_name[1])) <= FuzzThreshold
    THEN Return(FALSE)
    ELSE IF artist = None \/ artist_name = None
    THEN Raise("'NoneType' object has no attribute 'lower'")
    ELSE Return(FuzzRatio(Lower(artist[1]), Lower(artist_name[1])) > FuzzThreshold)

\* the dict that is appended for a result
Recommendation(result, artist, thumbnail, album, track_id) ==
    [title |-> result.title,
     artist |-> artist,
     album |-> Get(album, "name", "N/A"),
     thumbnail |-> thumbnail,
     views |-> Get(result, "views", "0"),
     spotify_url |-> TrackUrl \o Str(track_id)]

\* the loop body after the test: thumbnail is the outcome of
\* result.get('thumbnails', [{'url': None}])[0]['url']
Appended(result, artist, skip, thumbnail, album, track_id) ==
    IF skip.raised THEN skip
    ELSE IF skip.value THEN Return(None)
    ELSE IF thumbnail.raised THEN thumbnail
    ELSE IF album = None THEN Raise("'NoneType' object has no attribute 'get'")
    ELSE Return(Some(Recommendation(result, artist, thumbnail.value, album[1],
                                    track_id)))

\* the loop body once artist is known
Tested(result, artist, song_name, artist_name, track_id) ==
    IF "title" \notin DOMAIN result THEN Raise("'title'")
    ELSE Appended(result, artist,
                  SkipMatch(result.title, artist, song_name, artist_name),
                  Subscript(Get(result, "thumbnails", Some(<<[url |-> None]>>)),
                            "url"),
                  Get(result, "album", Some(<<>>)), track_id)

\* artist is the outcome of
\* result.get('artists', [{'name': 'Unknown Artist'}])[0]['name']
Named(result, artist, song_name, artist_name, track_id) ==
    IF artist.raised THEN artist
    ELSE Tested(result, artist.value, song_name, artist_name, track_id)

\* the body of the loop for one search result: Return(None) when it is skipped
RecommendationOf(result, song_name, artist_name, track_id) ==
    Named(result,
          Subscript(Get(result, "artists", Some(<<[name |-> Some(UnknownArtist)]>>)),
                    "name"),
          song_name, artist_name, track_id)

RECURSIVE Recommendations(_, _, _, _)
Recommendations(results, song_name, artist_name, track_id) ==
    IF results = <<>> THEN Return(<<>>)
    ELSE LET n == Len(results)
             before == Recommendations(SubSeq(results, 1, n - 1),
                                       song_name, artist_name, track_id)
             rec == RecommendationOf(results[n], song_name, artist_name, track_id)
         IN IF before.raised THEN before
            ELSE IF rec.raised THEN rec
            ELSE Return(before.value \o rec.value)

\* search_results is what ytmusic.search(query, filter='songs') returned
get_youtube_music_recommendations(song_name, artist_name, track_id, search_results) ==
    Recommendations(SubSeq(search_results, 1, Min(SearchLimit, Len(search_results))),
                    song_name, artist_name, track_id)

----------------------------------------------------------------------------
(* What the outside world can send and answer *)

\* the longest playlist response
MaxTracks == 2

Z == <<122>>   \* 'z'
ABy == <<97, 32, 98, 121, 32, 98>>   \* 'a by b'
BByC == <<98, 32, 98, 121, 32, 99>>   \* 'b by c'
XBy == <<120, 32, 98, 121>>   \* 'x by'

\* items of a playlist response (sp.playlist_tracks); a local file of the
\* playlist has id None
Song(name, artist, id) ==
    [track |-> Some([name |-> Some(name),
                     artists |-> Some(<<[name |-> Some(artist)]>>),
                     id |-> Some(id)])]

PlaylistItems ==
    { Song(<<83>>, <<84>>, <<49>>),   \* 'S' 'T' '1'
      Song(<<97>>, BByC, <<50>>),   \* 'a' '2'
      [track |-> Some([artists |-> Some(<<>>), id |-> None])],
      [track |-> None],
      [track |-> Some([name |-> Some(<<101>>),   \* 'e'
                       artists |-> Some(<<[name |-> Some(Z)]>>)])] }

RECURSIVE SeqsUpTo(_, _)
SeqsUpTo(S, n) ==
    IF n = 0 THEN {<<>>}
    ELSE LET shorter == SeqsUpTo(S, n - 1)
         IN shorter \cup {Append(q, x) : q \in shorter, x \in S}

PlaylistResponses ==
    {Some([items |-> q, total |-> Len(q)]) : q \in SeqsUpTo(PlaylistItems, MaxTracks)}
        \cup {Some([total |-> 0]), None}

\* results of a search (ytmusic.search); a song that is not on an album comes
\* with album None
Hit(title, artist, views) ==
    [title |-> Some(title), artists |-> Some(<<[name |-> Some(artist)]>>),
     album |-> Some([name |-> "LP"]),
     thumbnails |-> Some(<<[url |-> Some("img")]>>), views |-> views]

PageEleven ==
    <<Hit(<<99>>, Z, "1"), Hit(<<100>>, Z, "1"), Hit(<<101>>, Z, "1"),   \* 'c' 'd' 'e'
      Hit(<<102>>, Z, "1"), Hit(<<103>>, Z, "1"), Hit(<<104>>, Z, "1"),   \* 'f' 'g' 'h'
      Hit(<<105>>, Z, "1"), Hit(<<106>>, Z, "1"), Hit(<<107>>, Z, "1"),   \* 'i' 'j' 'k'
      Hit(<<108>>, Z, "1"), Hit(<<109>>, Z, "1")>>   \* 'l' 'm'

PageMixed ==
    <<Hit(<<115>>, <<116>>, "2"), Hit(<<110>>, Z, "3"), Hit(<<111>>, Z, "4"),   \* 's' 't' 'n' 'o'
      Hit(<<78>>, <<90>>, "5"), Hit(<<111>>, Z, "6"), Hit(<<79>>, Z, "7"),   \* 'N' 'Z' 'o' 'O'
      Hit(<<99>>, Z, "8")>>   \* 'c'

\* 201 is U+00C9, capital E with acute; 233 is U+00E9, its lowercase
PageCounts ==
    <<Hit(<<233>>, Z, "1"), Hit(<<114>>, Z, "2"), Hit(<<82>>, Z, "3"),   \* 'r' 'R'
      Hit(<<233>>, Z, "4"), Hit(<<114>>, Z, "5"), Hit(<<118>>, Z, "6"),   \* 'r' 'v'
      Hit(<<201>>, Z, "7"), Hit(<<114>>, Z, "8"), Hit(<<114>>, <<90>>, "9")>>   \* 'r' 'r' 'Z'

PageSong == <<Hit(<<115>>, <<116>>, "2"), Hit(<<83>>, <<84>>, "9")>>   \* 's' 't' 'S' 'T'

PageBy == <<Hit(ABy, <<99>>, "2")>>   \* 'c'

PageTail ==
    <<[title |-> Some(XBy), artists |-> Some(<<[name |-> Some(<<121>>)]>>)],   \* 'y'
      [title |-> Some(<<113>>)], Hit(<<99>>, Z, "8")>>   \* 'q' 'c'

PageBroken ==
    <<Hit(<<110>>, Z, "3"), [artists |-> Some(<<[name |-> Some(Z)]>>)]>>   \* 'n'

PageNoArtist == <<[title |-> Some(<<113>>), artists |-> Some(<<>>)]>>   \* 'q'

PageSingle ==
    <<Hit(<<118>>, Z, "4"),   \* 'v'
      [title |-> Some(<<113>>),   \* 'q'
       artists |-> Some(<<[name |-> Some(Z)]>>), album |-> None,
       thumbnails |-> Some(<<[url |-> Some("img")]>>), views |-> "1"]>>

SearchPages ==
    {<<>>, PageEleven, PageMixed, PageCounts, PageSong, PageBy, PageTail,
     PageBroken, PageNoArtist, PageSingle}

\* playlist links a user can submit
Links == {<<117, 47, 55, 63, 115>>, <<56>>}   \* 'u/7?s' '8'
FormValues == {None, Some(<<>>)} \cup {Some(l) : l \in Links}

\* the code parameter of a request to /callback
Codes == {None, Some(<<>>), Some(<<107>>)}   \* 'k'

\* what sp_oauth.get_authorize_url returns
AuthorizeUrl == <<47, 97, 117, 116, 104, 111, 114, 105, 122, 101>>   \* '/authorize'

\* what sp_oauth.get_access_token can return
TokenInfos ==
    {Some([access_token |-> "token"]), Some([token_type |-> "Bearer"]),
     Some(<<>>), None}

----------------------------------------------------------------------------
(* The application *)

VARIABLES
    secret_key,           \* is app.secret_key set?
    session,              \* session.get('playlist_link')
    pc,                   \* where the handler of the current request is
    request,              \* the current (or last) request
    response,             \* what the handler returned
    calls,                \* the external calls of the current request, in order
    playlist_link,        \* callback's locals
    spotify_tracks,
    all_recommendations,
    track_index,          \* the position of "for track in spotify_tracks"
    top_recommendations   \* the outcome of filter_and_get_top_recommendations

vars == <<secret_key, session, pc, request, response, calls, playlist_link,
          spotify_tracks, all_recommendations, track_index, top_recommendations>>

NoResponse == [kind |-> "none", error |-> None, recommendations |-> None,
               location |-> None]

\* render_template('index.html')
Page == [kind |-> "template", error |-> None, recommendations |-> None,
         location |-> None]
\* render_template('index.html', error=...)
ErrorPage(message) == [Page EXCEPT !.error = Some(message)]
\* render_template('index.html', recommendations=...)
RecommendationsPage(recs) == [Page EXCEPT !.recommendations = Some(recs)]
\* redirect(auth_url)
Redirect(url) == [kind |-> "redirect", error |-> None, recommendations |-> None,
                  location |-> Some(url)]

\* except Exception as e: return render_template(..., error=f"Error: {str(e)}")
Caught(exc) == ErrorPage(<<"Error: ", exc>>)

\* the RuntimeError of Flask's NullSession, raised by session[...] = ...
NullSession ==
    "The session is unavailable because no secret key was set."
        \o "  Set the secret_key on the application to something unique and secret."

\* one external call: the library function, its argument and how it ended
Call(api, arg, outcome) == [api |-> api, arg |-> arg, outcome |-> outcome]

\* (variant for C7: the form value is not tested)
AnyPost(method, form_link) == method = "POST"

\* "if request.method == 'POST'" and "if playlist_link:"
HasLink(method, form_link) == method = "POST" /\ Truthy(form_link)

\* (variant for C6: only an absent code counts as missing)
CodeIsNone(code) == code = None

\* "if not code:"
CodeMissing(code) == ~Truthy(code)

\* "if not token_info:"
NoToken(token_info) == ~Truthy(token_info)

\* (variant for C8: the empty playlist is not tested for)
NeverNoTracks(tracks) == FALSE

\* "if not spotify_tracks:"
NoTracks(tracks) == tracks = <<>>

\* (variant for C10: the loop skips every other track)
SkipTrack(i) == i + 2

\* the step of the for loop over spotify_tracks
NextTrack(i) == i + 1

\* playlist_link.split("/")[-1].split("?")[0]
PlaylistId(link) ==
    LET parts == Split(link, <<47>>)   \* '/'
    IN Split(parts[Len(parts)], <<63>>)[1]   \* '?'

ResetLocals ==
    /\ spotify_tracks' = <<>>
    /\ all_recommendations' = <<>>
    /\ track_index' = 0
    /\ top_recommendations' = None

Init ==
    /\ secret_key \in BOOLEAN
    /\ session = None
    /\ pc = "idle"
    /\ request = [route |-> "", method |-> "", playlist_link |-> None, code |-> None]
    /\ response = NoResponse
    /\ calls = <<>>
    /\ playlist_link = None
    /\ spotify_tracks = <<>>
    /\ all_recommendations = <<>>
    /\ track_index = 0
    /\ top_recommendations = None

\* index(), up to the call of sp_oauth.get_authorize_url; form is the submitted
\* form's playlist_link, which only a POST carries
Index(method, form) ==
    LET form_link == IF method = "POST" THEN form ELSE None
    IN
    /\ pc = "idle"
    /\ request' = [route |-> "/", method |-> method, playlist_link |-> form_link,
                   code |-> None]
    /\ calls' = <<>>
    /\ playlist_link' = None
    /\ ResetLocals
    /\ IF HasLink(method, form_link)
       THEN IF secret_key
            THEN /\ session' = form_link
                 /\ pc' = "authorize"
                 /\ response' = NoResponse
            ELSE /\ session' = session
                 /\ pc' = "idle"
                 /\ response' = Caught(NullSession)
       ELSE /\ session' = session
            /\ pc' = "idle"
            /\ response' = Page
    /\ UNCHANGED secret_key

\* auth_url = sp_oauth.get_authorize_url(); return redirect(auth_url)
Authorize(outcome) ==
    /\ pc = "authorize"
    /\ calls' = Append(calls, Call("get_authorize_url", <<>>, outcome))
    /\ response' = IF outcome.raised THEN Caught(outcome.exc)
                   ELSE Redirect(outcome.value)
    /\ pc' = "idle"
    /\ UNCHANGED <<secret_key, session, request, playlist_link, spotify_tracks,
                   all_recommendations, track_index, top_recommendations>>

\* callback(), up to the call of sp_oauth.get_access_token
CallbackBegin(code) ==
    /\ pc = "idle"
    /\ request' = [route |-> "/callback", method |-> "GET", playlist_link |-> None,
                   code |-> code]
    /\ calls' = <<>>
    /\ playlist_link' = session
    /\ ResetLocals
    /\ IF ~Truthy(session)
       THEN /\ response' = ErrorPage(<<"Playlist link not found in session.">>)
            /\ pc' = "idle"
       ELSE IF CodeMissing(code)
       THEN /\ response' = ErrorPage(<<"Authorization code not found.">>)
            /\ pc' = "idle"
       ELSE /\ response' = NoResponse
            /\ pc' = "token"
    /\ UNCHANGED <<secret_key, session>>

\* token_info = sp_oauth.get_access_token(code) ... sp = spotipy.Spotify(...)
TokenExchange(outcome) ==
    /\ pc = "token"
    /\ calls' = Append(calls, Call("get_access_token", request.code[1], outcome))
    /\ IF outcome.raised
       THEN /\ response' = Caught(outcome.exc)
            /\ pc' = "idle"
       ELSE IF NoToken(outcome.value)
       THEN /\ response' = ErrorPage(<<"Could not retrieve access token.">>)
            /\ pc' = "idle"
       ELSE IF "access_token" \notin DOMAIN outcome.value[1]
       THEN /\ response' = Caught("'access_token'")
            /\ pc' = "idle"
       ELSE /\ response' = response
            /\ pc' = "playlist"
    /\ UNCHANGED <<secret_key, session, request, playlist_link, spotify_tracks,
                   all_recommendations, track_index, top_recommendations>>

\* spotify_tracks = get_spotify_tracks(SPOTIFY_PLAYLIST_ID, sp) and the test on it
FetchPlaylist(outcome) ==
    LET tracks == IF outcome.raised THEN outcome ELSE get_spotify_tracks(outcome.value)
    IN /\ pc = "playlist"
       /\ calls' = Append(calls, Call("playlist_tracks", PlaylistId(playlist_link[1]),
                                      outcome))
       /\ IF tracks.raised
          THEN /\ response' = Caught(tracks.exc)
               /\ pc' = "idle"
               /\ UNCHANGED <<spotify_tracks, track_index>>
          ELSE /\ spotify_tracks' = tracks.value
               /\ IF NoTracks(tracks.value)
                  THEN /\ response' = ErrorPage(<<"No tracks found in the playlist.">>)
                       /\ pc' = "idle"
                       /\ UNCHANGED track_index
                  ELSE /\ response' = response
                       /\ pc' = IF Len(tracks.value) = 0 THEN "rank" ELSE "search"
                       /\ track_index' = 1
       /\ UNCHANGED <<secret_key, session, request, playlist_link,
                      all_recommendations, top_recommendations>>

\* one turn of the for loop: one call of get_youtube_music_recommendations
SearchTrack(outcome) ==
    LET track == spotify_tracks[track_index]
        recs == IF outcome.raised THEN outcome
                ELSE get_youtube_music_recommendations(track.name, track.artist,
                                                       track.id, outcome.value)
    IN /\ pc = "search"
       /\ calls' = Append(calls, Call("search", SearchQuery(track.name, track.artist),
                                      outcome))
       /\ IF recs.raised
          THEN /\ response' = Caught(recs.exc)
               /\ pc' = "idle"
               /\ UNCHANGED <<all_recommendations, track_index>>
          ELSE /\ all_recommendations' = all_recommendations \o recs.value
               /\ track_index' = NextTrack(track_index)
               /\ pc' = IF track_index' > Len(spotify_tracks) THEN "rank" ELSE "search"
               /\ response' = response
       /\ UNCHANGED <<secret_key, session, request, playlist_link, spotify_tracks,
                      top_recommendations>>

\* top_recommendations = filter_and_get_top_recommendations(...) and the rendering
RankAndRender ==
    LET ranked == filter_and_get_top_recommendations(spotify_tracks, all_recommendations)
    IN /\ pc = "rank"
       /\ top_recommendations' = Some(ranked)
       /\ response' = IF ranked.raised THEN Caught(ranked.exc)
                      ELSE RecommendationsPage(ranked.value)
       /\ pc' = "idle"
       /\ UNCHANGED <<secret_key, session, request, calls, playlist_link,
                      spotify_tracks, all_recommendations, track_index>>

Next ==
    \/ \E method \in {"GET", "POST"}, form \in FormValues : Index(method, form)
    \/ \E outcome \in {Return(AuthorizeUrl),
                       Raise("authorize failed")} : Authorize(outcome)
    \/ \E code \in Codes : CallbackBegin(code)
    \/ \E outcome \in {Return(t) : t \in TokenInfos} \cup {Raise("token exchange failed")} :
          TokenExchange(outcome)
    \/ \E outcome \in {Return(r) : r \in PlaylistResponses}
                         \cup {Raise("playlist fetch failed")} : FetchPlaylist(outcome)
    \/ \E outcome \in {Return(p) : p \in SearchPages} \cup {Raise("search failed")} :
          SearchTrack(outcome)
    \/ RankAndRender

Spec == Init /\ [][Next]_vars

----------------------------------------------------------------------------
(* Vocabulary of the properties *)

\* filter_and_get_top_recommendations was called in this request / returned
Ranked == top_recommendations # None
Returned == Ranked /\ ~top_recommendations[1].raised
Output == top_recommendations[1].value

KeyOf(rec) == RecKey(rec.title, rec.artist)
Keys(recs) == [j \in DOMAIN recs |-> KeyOf(recs[j])]
SeenKeys == PlaylistSongs(spotify_tracks)

\* the candidate's title and artist are those of a playlist track, case aside
PairCovered(rec) ==
    \E i \in DOMAIN spotify_tracks :
        /\ Lower(spotify_tracks[i].name[1]) = Lower(rec.title[1])
        /\ Lower(spotify_tracks[i].artist[1]) = Lower(rec.artist[1])

\* the distinct keys among keys that are not keys of the playlist
Open(keys) == {keys[j] : j \in DOMAIN keys} \ SeenKeys

\* for each open key: how often it occurs among the candidates, and where first
Tally(keys) ==
    [k \in Open(keys) |->
        [count |-> Cardinality({j \in DOMAIN keys : keys[j] = k}),
         first |-> CHOOSE j \in DOMAIN keys :
                      keys[j] = k /\ \A h \in 1..(j - 1) : keys[h] # k]]

\* the ranking: more occurrences first, earlier first occurrence among equals
Ahead(tally, k1, k2) ==
    \/ tally[k1].count > tally[k2].count
    \/ tally[k1].count = tally[k2].count /\ tally[k1].first < tally[k2].first

\* the keys with fewer than 10 keys ahead of them
FirstTen(tally) ==
    {k \in DOMAIN tally : Cardinality({h \in DOMAIN tally : Ahead(tally, h, k)}) < 10}

----------------------------------------------------------------------------
(* Properties *)

\* C1: whenever filter_and_get_top_recommendations returns, the returned list
\* has at most 10 records and at most as many records as there are distinct
\* candidate keys outside the playlist's seen-key set.
C1_LengthBound ==
    Returned => /\ Len(Output) <= 10
                /\ Len(Output) <= Cardinality(Open(Keys(all_recommendations)))

\* C1 witness: more than 10 distinct keys are open and exactly 10 are returned.
C1_Witness ==
    /\ Returned
    /\ Cardinality(Open(Keys(all_recommendations))) > 10
    /\ Len(Output) = 10

\* C2: the returned records are in non-increasing order of their key's count,
\* keys of equal count in the order of their first occurrence, and every
\* returned key is among the first 10 keys of that ordering.
C2_RankOrder ==
    Returned =>
        LET tally == Tally(Keys(all_recommendations))
            out == Keys(Output)
            first10 == FirstTen(tally)
        IN /\ \A i \in DOMAIN out : out[i] \in first10
           /\ \A i, j \in DOMAIN out : i < j => Ahead(tally, out[i], out[j])
           /\ Len(out) = Cardinality(first10) => {out[i] : i \in DOMAIN out} = first10

\* C2 witness: counts 5, 3 and 1 lead the output, equal counts follow each
\* other, and an eleventh key was cut.
C2_Witness ==
    /\ Returned
    /\ Len(Output) = 10
    /\ LET tally == Tally(Keys(all_recommendations))
           out == Keys(Output)
       IN /\ Cardinality(DOMAIN tally) > 10
          /\ tally[out[1]].count = 5
          /\ tally[out[2]].count = 3
          /\ tally[out[3]].count = 1
          /\ tally[out[4]].count = 1

\* C3: a candidate is excluded from counting if and only if some playlist
\* track has its title as name and its artist as artist, case aside.
C3_ExcludedIffCovered ==
    Ranked =>
        \A j \in DOMAIN all_recommendations :
            Excluded(all_recommendations[j], SeenKeys)
                <=> PairCovered(all_recommendations[j])

\* C4: if every candidate's (title, artist) pair is that of a playlist track,
\* case aside, the function returns the empty list; so it does for no
\* candidates at all.
C4_CoveredGivesEmpty ==
    (Ranked /\ \A j \in DOMAIN all_recommendations : PairCovered(all_recommendations[j]))
        => top_recommendations[1] = Return(<<>>)

\* C4 witness: there are candidates, each is a playlist track, nothing is returned.
C4_Witness ==
    /\ Ranked
    /\ all_recommendations # <<>>
    /\ \A j \in DOMAIN all_recommendations : PairCovered(all_recommendations[j])
    /\ top_recommendations[1] = Return(<<>>)

\* C5: no two returned records have the same key, every returned record is an
\* element of the candidate list, and no returned key is a key of the playlist.
C5_Deduplicated ==
    Returned =>
        LET out == Keys(Output)
            seen == SeenKeys
        IN /\ \A i, j \in DOMAIN out : i # j => out[i] # out[j]
           /\ \A i \in DOMAIN out :
                 /\ \E j \in DOMAIN all_recommendations :
                       all_recommendations[j] = Output[i]
                 /\ out[i] \notin seen

\* C5 witness: candidates repeat keys, one candidate is a playlist track, and
\* several records are returned.
C5_Witness ==
    /\ Returned
    /\ Len(Output) >= 2
    /\ LET keys == Keys(all_recommendations)
       IN /\ \E j \in DOMAIN keys : keys[j] \in SeenKeys
          /\ \E j, h \in DOMAIN keys : j # h /\ keys[j] = keys[h] /\ keys[j] \notin SeenKeys

\* C9: each key retained among the top 10 gives exactly one returned record,
\* the first candidate of that key, whatever the titles and artists contain;
\* the function never raises and never drops a retained key.
C9_OnePerRetainedKey ==
    Ranked =>
        /\ ~top_recommendations[1].raised
        /\ LET tally == Tally(Keys(all_recommendations))
               out == Keys(Output)
           IN \A k \in FirstTen(tally) :
                 \E i \in DOMAIN out :
                     /\ Output[i] = all_recommendations[tally[k].first]
                     /\ \A h \in DOMAIN out : out[h] = k => h = i

\* the request named no playlist link
NoLinkRequest(r) ==
    r.route = "/" /\ (r.method = "GET" \/ ~Truthy(r.playlist_link))

\* a step of the current /callback request failed
FailedStep ==
    \/ ~Truthy(playlist_link)
    \/ ~Truthy(request.code)
    \/ \E i \in DOMAIN calls : calls[i].outcome.raised
    \/ \E i \in DOMAIN calls :
          /\ calls[i].api = "get_access_token"
          /\ ~calls[i].outcome.raised
          /\ NoToken(calls[i].outcome.value)
    \/ \E i \in DOMAIN calls :
          /\ calls[i].api = "playlist_tracks"
          /\ ~calls[i].outcome.raised
          /\ LET tracks == get_spotify_tracks(calls[i].outcome.value)
             IN tracks.raised \/ tracks.value = <<>>
    \/ \E i \in DOMAIN calls :
          /\ calls[i].api = "search"
          /\ ~calls[i].outcome.raised
          /\ i - 2 \in DOMAIN spotify_tracks
          /\ get_youtube_music_recommendations(
                 spotify_tracks[i - 2].name, spotify_tracks[i - 2].artist,
                 spotify_tracks[i - 2].id, calls[i].outcome.value).raised
    \/ Ranked /\ top_recommendations[1].raised

\* the playlist fetch of the current request gave no tracks
EmptyPlaylist ==
    \E i \in DOMAIN calls :
        /\ calls[i].api = "playlist_tracks"
        /\ ~calls[i].outcome.raised
        /\ get_spotify_tracks(calls[i].outcome.value) = Return(<<>>)

\* C6: a request to /callback without an authorization code renders an error
\* page and makes no external call, whether or not the session holds a link.
C6_NoCodeNoCalls ==
    (request.route = "/callback" /\ ~Truthy(request.code))
        => /\ pc = "idle"
           /\ calls = <<>>
           /\ response.kind = "template"
           /\ response.error # None
           /\ response.recommendations = None

\* C6 witness: the session holds a link, the request has no code, and the
\* error page for the missing code was rendered without a call.
C6_Witness ==
    /\ request.route = "/callback"
    /\ request.code = None
    /\ Truthy(session)
    /\ response = ErrorPage(<<"Authorization code not found.">>)
    /\ calls = <<>>

\* C7: a request to / without a playlist link renders the input page with no
\* error and no redirect, asks for no authorize URL and leaves the session's
\* link as it was; the session's link changes only in a POST with a non-empty
\* link, to that link, before any redirect is issued.
C7_NoLinkLeavesSession ==
    /\ [][(pc = "idle" /\ NoLinkRequest(request'))
             => /\ pc' = "idle"
                /\ response' = Page
                /\ calls' = <<>>
                /\ session' = session]_vars
    /\ [][session' # session
             => /\ pc = "idle"
                /\ request'.route = "/"
                /\ request'.method = "POST"
                /\ Truthy(request'.playlist_link)
                /\ session' = request'.playlist_link
                /\ response'.kind # "redirect"
                /\ calls' = <<>>]_vars
    /\ [](response.kind = "redirect" => session = request.playlist_link)

\* C7 witness: the session holds a link and a POST with an empty link has
\* been answered with the plain input page.
C7_Witness ==
    /\ request.route = "/"
    /\ request.method = "POST"
    /\ request.playlist_link = Some(<<>>)
    /\ Truthy(session)
    /\ response = Page
    /\ calls = <<>>
    /\ pc = "idle"

\* C8: once a step of a /callback request has failed the request is over and
\* its response is an error page without recommendations; a finished request
\* has rendered the page (no exception left the handler); an empty playlist
\* gives the error without a search call.
C8_FailureRendersError ==
    request.route = "/callback" =>
        /\ FailedStep => /\ pc = "idle"
                         /\ response.kind = "template"
                         /\ response.error # None
                         /\ response.recommendations = None
        /\ pc = "idle" => /\ response.kind = "template"
                          /\ (response.error = None) # (response.recommendations = None)
        /\ EmptyPlaylist => \A i \in DOMAIN calls : calls[i].api # "search"

\* C8 witness: the first search gave candidates, the second search raised,
\* and the error page was rendered.
C8_Witness ==
    /\ request.route = "/callback"
    /\ Len(calls) = 4
    /\ calls[4].outcome.raised
    /\ all_recommendations # <<>>
    /\ response = Caught("search failed")
    /\ pc = "idle"

\* C10: the external calls of a /callback request are, in this order, the
\* token exchange, the playlist fetch and one search per playlist track in
\* playlist order, each at most once; a call that raised is the last call; the
\* ranking runs and recommendations are rendered only after all of them.
C10_CallOrder ==
    request.route = "/callback" =>
        /\ Len(calls) <= 2 + Len(spotify_tracks)
        /\ \A i \in DOMAIN calls :
              /\ i = 1 => /\ calls[i].api = "get_access_token"
                          /\ calls[i].arg = request.code[1]
              /\ i = 2 => calls[i].api = "playlist_tracks"
              /\ i > 2 => /\ calls[i].api = "search"
                          /\ calls[i].arg = SearchQuery(spotify_tracks[i - 2].name,
                                                        spotify_tracks[i - 2].artist)
              /\ calls[i].outcome.raised => i = Len(calls)
        /\ Ranked => Len(calls) = 2 + Len(spotify_tracks)
        /\ response.recommendations # None
              => /\ Ranked
                 /\ pc = "idle"
                 /\ \A i \in DOMAIN calls : ~calls[i].outcome.raised

\* C10 witness: recommendations were rendered for a playlist of two tracks
\* after four calls.
C10_Witness ==
    /\ request.route = "/callback"
    /\ response.recommendations # None
    /\ Len(spotify_tracks) = 2
    /\ Len(calls) = 4
    /\ calls[3].arg # calls[4].arg

====
